---- MODULE Spec2Model ----
(***************************************************************************)
(* Model of the artifact store of airbnb-mlops:                            *)
(*   src/src/utils/artifact_manager.py  (ArtifactManager)                  *)
(*   src/src/api/predictor.py           (PricePredictor.__init__)          *)
(*                                                                         *)
(* Directory and file names are Python strings.  A string is modelled as   *)
(* the sequence of its characters so that sorted(), str.split(), int()     *)
(* and the f-string of get_next_version are computed as Python computes    *)
(* them.                                                                   *)
(***************************************************************************)
EXTENDS Integers, Sequences, FiniteSets, TLC

(***************************************************************************)
(* Bounds of the model.                                                    *)
(***************************************************************************)
\* number of save_artifacts calls made in one behaviour
MaxCalls == 3

\* number of save_artifacts calls made in one behaviour in which the file
\* operations of a reader interleave with those of the writer
MaxConcCalls == 2
\* save_artifacts calls begun in a run in which the catalog file is damaged
MaxFaultCalls == 2

\* save_artifacts calls begun by two processes that share the store
MaxRaceCalls == 2

(***************************************************************************)
(* Python strings.                                                         *)
(***************************************************************************)
DigitChars == <<"0", "1", "2", "3", "4", "5", "6", "7", "8", "9">>

IsDigit(c) == \E i \in 1..10 : DigitChars[i] = c

DigitVal(c) == (CHOOSE i \in 1..10 : DigitChars[i] = c) - 1

\* ord() of the characters that occur in the directory names of the model
Ord(c) ==
    CASE c = "." -> 46
      [] IsDigit(c) -> 48 + DigitVal(c)
      [] c = "a" -> 97
      [] c = "b" -> 98
      [] c = "k" -> 107
      [] c = "v" -> 118

\* s < t for Python str: first differing character decides, a proper
\* prefix is smaller
RECURSIVE StrLess(_, _)
StrLess(s, t) ==
    IF s = <<>> THEN t # <<>>
    ELSE IF t = <<>> THEN FALSE
    ELSE IF Head(s) = Head(t) THEN StrLess(Tail(s), Tail(t))
    ELSE Ord(Head(s)) < Ord(Head(t))

\* sorted(names)[-1]
SortedLast(names) ==
    CHOOSE m \in names : \A n \in names : n = m \/ StrLess(n, m)

\* s.split(".")
RECURSIVE SplitDot(_)
SplitDot(s) ==
    IF \A i \in 1..Len(s) : s[i] # "." THEN <<s>>
    ELSE LET i == CHOOSE j \in 1..Len(s) :
                      s[j] = "." /\ \A k \in 1..(j - 1) : s[k] # "."
         IN <<SubSeq(s, 1, i - 1)>> \o SplitDot(SubSeq(s, i + 1, Len(s)))

\* int(s) succeeds (for strings over the characters of the model)
IsInt(s) == Len(s) > 0 /\ \A i \in 1..Len(s) : IsDigit(s[i])

\* int(s)
RECURSIVE ToInt(_)
ToInt(s) ==
    IF Len(s) = 0 THEN 0
    ELSE 10 * ToInt(SubSeq(s, 1, Len(s) - 1)) + DigitVal(s[Len(s)])

\* str(n) for n >= 0
RECURSIVE Dec(_)
Dec(n) ==
    IF n < 10 THEN <<DigitChars[n + 1]>>
    ELSE Dec(n \div 10) \o <<DigitChars[(n % 10) + 1]>>

\* f"v{major}.{minor}.{patch}"
FormatVersion(major, minor, patch) ==
    <<"v">> \o Dec(major) \o <<".">> \o Dec(minor) \o <<".">> \o Dec(patch)

(***************************************************************************)
(* Results of calls: a returned value or a raised exception.               *)
(***************************************************************************)
Ok(v) == [ok |-> TRUE, val |-> v]

Raise(e) == [ok |-> FALSE, err |-> e]

(***************************************************************************)
(* get_next_version, as a function of the names of the directories under   *)
(* versions/.                                                              *)
(***************************************************************************)
get_next_version(names) ==
    IF names = {} THEN Ok(FormatVersion(1, 0, 0))
    ELSE LET latest_version == SortedLast(names)
             parts == SplitDot(Tail(latest_version))
         IN IF Len(parts) # 3 \/ \E i \in 1..Len(parts) : ~IsInt(parts[i])
            THEN Raise("ValueError")
            ELSE Ok(FormatVersion(ToInt(parts[1]), ToInt(parts[2]),
                                  ToInt(parts[3]) + 1))

(***************************************************************************)
(* The store on disk.                                                      *)
(***************************************************************************)
\* the four files of a bundle, in the order save_artifacts writes them and
\* _update_latest removes, links and copies them
FileOrder == <<"price_model.pkl", "preprocessor.pkl", "feature_names.pkl",
               "metadata.json">>

Files == {FileOrder[i] : i \in 1..4}

\* version=None
None == <<>>

\* a path at which nothing exists
NoFile == [kind |-> "none"]

\* a regular file and its contents
RegFile(d) == [kind |-> "file", data |-> d]

\* a symbolic link to version_dir / f; version_dir is an absolute path only
\* when the manager was built with an absolute artifacts_dir
SymLink(v, f, a) == [kind |-> "link", target |-> v, file |-> f, abs |-> a]

\* the empty dict {}
EmptyDict == [empty |-> TRUE]

\* what joblib.dump writes for the n-th call's model, preprocessor and
\* feature_info (opaque objects, one per call)
Pickle(f, n) == [member |-> f, token |-> n]

\* the content of a file json.load cannot parse
Garbage == [garbage |-> TRUE]

\* feature_info.get("total_features", 0) of the n-th call's feature_info
total_features(n) == n

\* metrics={} of train_models; the metrics of the n-th direct call are n
EmptyMetrics == 0

\* the metrics evaluate_model computes for the model of the n-th call
evaluate_model(n) == 0 - n

VARIABLES
    absdir,     \* the manager's artifacts_dir is an absolute path
    vers,       \* versions/: directory name -> (file name -> file)
    latest,     \* latest/: file name -> nothing, regular file or link
    catalog,    \* artifacts/metadata.json
    clock,      \* datetime.now()
    calls,      \* number of save_artifacts calls begun
    pc,         \* position of each writer in save_artifacts
    loc,        \* local variables of each writer
    rd,         \* position and local variables of the reader
    pl,         \* position and local variables of run_pipeline
    assigned,   \* ids get_next_version gave to the calls made without a
                \* version since the last call made with one, in order
    saved       \* version id -> the bundle of the last call that returned
                \* it, and the number of calls that returned it

vars == <<absdir, vers, latest, catalog, clock, calls, pc, loc, rd, pl,
          assigned, saved>>

Writers == {"w1", "w2"}

\* version ids callers pass explicitly to save_artifacts
ExplicitNames ==
    { <<"v", "1", ".", "0", ".", "9">>,
      <<"v", "1", ".", "9", ".", "0">>,
      <<"v", "1", ".", "1", "0", ".", "0">>,
      <<"v", "2">>,
      <<"b", "a", "k">> }

\* the file a path of latest/ leads to, following a link
LatestFile(f) ==
    LET e == latest[f]
    IN IF e.kind = "link"
       THEN IF e.abs /\ e.target \in DOMAIN vers
            THEN vers[e.target][e.file]
            ELSE NoFile
       ELSE e

\* Path.exists() of a path of latest/ (False for a link that leads nowhere)
LatestExists(f) == LatestFile(f).kind = "file"

InitLoc ==
    [version |-> None, arg |-> 0, metrics |-> EmptyMetrics,
     metadata |-> EmptyDict, i |-> 0,
     global_metadata |-> EmptyDict, failedAt |-> 0, result |-> EmptyDict]

InitPl ==
    [pc |-> "idle", version |-> None, metrics |-> EmptyMetrics,
     metadata |-> EmptyDict, patch |-> "none", logged |-> FALSE,
     result |-> EmptyDict]

InitRd ==
    [pc |-> "idle", req |-> None, i |-> 0,
     got |-> [f \in Files |-> EmptyDict], result |-> EmptyDict]

\* ArtifactManager.__init__: versions/ and latest/ exist and are empty
Init ==
    /\ absdir \in BOOLEAN
    /\ vers = <<>>
    /\ latest = [f \in Files |-> NoFile]
    /\ catalog = NoFile
    /\ clock = 1
    /\ calls = 0
    /\ pc = [w \in Writers |-> "idle"]
    /\ loc = [w \in Writers |-> InitLoc]
    /\ rd = InitRd
    /\ pl = InitPl
    /\ assigned = <<>>
    /\ saved = <<>>

Quiescent(w) == pc[w] \in {"idle", "returned", "raised"}

\* the exception leaves save_artifacts
Raised(w, e) ==
    /\ pc' = [pc EXCEPT ![w] = "raised"]
    /\ loc' = [loc EXCEPT ![w].result = Raise(e)]

(***************************************************************************)
(* save_artifacts, one step per file operation.                            *)
(***************************************************************************)
\* the call: save_artifacts(model_n, preprocessor_n, feature_info_n,
\* metrics_n, params_n, version)
SaveCall(w, version) ==
    /\ Quiescent(w)
    /\ calls' = calls + 1
    /\ loc' = [loc EXCEPT ![w] = [InitLoc EXCEPT !.version = version,
                                                 !.arg = calls + 1,
                                                 !.metrics = calls + 1]]
    /\ pc' = [pc EXCEPT ![w] = IF version = None THEN "alloc" ELSE "mkdir"]
    /\ assigned' = IF version = None THEN assigned ELSE <<>>
    /\ UNCHANGED <<pl, absdir, vers, latest, catalog, clock, rd, saved>>

\* run_pipeline up to the call train_models makes, on the manager it builds
\* with ArtifactManager(), the default relative directory:
\* save_artifacts(model_n, preprocessor_n, feature_info_n, metrics={},
\* params_n, version=None)
PipelineTrain(w) ==
    /\ ~absdir
    /\ pl.pc \in {"idle", "done", "failed"}
    /\ Quiescent(w)
    /\ pl' = [InitPl EXCEPT !.pc = "train"]
    /\ calls' = calls + 1
    /\ loc' = [loc EXCEPT ![w] = [InitLoc EXCEPT !.arg = calls + 1]]
    /\ pc' = [pc EXCEPT ![w] = "alloc"]
    /\ UNCHANGED <<absdir, vers, latest, catalog, clock, rd, assigned, saved>>

\* SaveAlloc under a reservation: the ids the other calls computed and
\* have not yet created a directory for count as taken
SaveAllocReserving(w) ==
    /\ pc[w] = "alloc"
    /\ LET reserved == {loc[o].version : o \in {x \in Writers \ {w} :
                                                  pc[x] = "mkdir"}}
           r == get_next_version(DOMAIN vers \cup reserved)
       IN IF r.ok
          THEN /\ loc' = [loc EXCEPT ![w].version = r.val]
               /\ pc' = [pc EXCEPT ![w] = "mkdir"]
               /\ assigned' = Append(assigned, r.val)
          ELSE /\ Raised(w, r.err)
               /\ UNCHANGED assigned
    /\ UNCHANGED <<pl, absdir, vers, latest, catalog, clock, calls, rd, saved>>

\* version = self.get_next_version()
SaveAlloc(w) ==
    /\ pc[w] = "alloc"
    /\ LET r == get_next_version(DOMAIN vers)
       IN IF r.ok
          THEN /\ loc' = [loc EXCEPT ![w].version = r.val]
               /\ pc' = [pc EXCEPT ![w] = "mkdir"]
               /\ assigned' = Append(assigned, r.val)
          ELSE /\ Raised(w, r.err)
               /\ UNCHANGED assigned
    /\ UNCHANGED <<pl, absdir, vers, latest, catalog, clock, calls, rd, saved>>

\* version_dir.mkdir(exist_ok=True)
SaveMkdir(w) ==
    /\ pc[w] = "mkdir"
    /\ LET v == loc[w].version
       IN vers' = [n \in DOMAIN vers \cup {v} |->
                      IF n \in DOMAIN vers THEN vers[n]
                      ELSE [f \in Files |-> NoFile]]
    /\ pc' = [pc EXCEPT ![w] = "dump"]
    /\ loc' = [loc EXCEPT ![w].i = 1]
    /\ UNCHANGED <<pl, absdir, latest, catalog, clock, calls, rd, assigned, saved>>

\* joblib.dump(model | preprocessor | feature_info, version_dir / ...)
SaveDump(w) ==
    /\ pc[w] = "dump"
    /\ LET v == loc[w].version
           f == FileOrder[loc[w].i]
       IN vers' = [vers EXCEPT ![v][f] = RegFile(Pickle(f, loc[w].arg))]
    /\ IF loc[w].i < 3
       THEN /\ loc' = [loc EXCEPT ![w].i = @ + 1]
            /\ UNCHANGED pc
       ELSE /\ loc' = [loc EXCEPT ![w].i = 0]
            /\ pc' = [pc EXCEPT ![w] = "metadata"]
    /\ UNCHANGED <<pl, absdir, latest, catalog, clock, calls, rd, assigned, saved>>

\* SaveMetadata writing the document into the directory that sorts last
\* under versions/ instead of the directory of the version being saved
SaveMetadataIntoLast(w) ==
    /\ pc[w] = "metadata"
    /\ LET v == loc[w].version
           metadata == [version |-> v,
                        timestamp |-> clock,
                        metrics |-> loc[w].metrics,
                        params |-> loc[w].arg,
                        model_type |-> "RandomForestRegressor",
                        feature_count |-> total_features(loc[w].arg)]
       IN /\ vers' = [vers EXCEPT ![SortedLast(DOMAIN vers)]["metadata.json"] =
                         RegFile(metadata)]
          /\ loc' = [loc EXCEPT ![w].metadata = metadata, ![w].i = 1]
    /\ clock' = clock + 1
    /\ pc' = [pc EXCEPT ![w] = "unlink"]
    /\ UNCHANGED <<pl, absdir, latest, catalog, calls, rd, assigned, saved>>

\* metadata = {...}; json.dump(metadata, version_dir / "metadata.json").
\* datetime.now() is later at every reading, so the isoformat() strings
\* compare as the readings of the clock do.
SaveMetadata(w) ==
    /\ pc[w] = "metadata"
    /\ LET v == loc[w].version
           metadata == [version |-> v,
                        timestamp |-> clock,
                        metrics |-> loc[w].metrics,
                        params |-> loc[w].arg,
                        model_type |-> "RandomForestRegressor",
                        feature_count |-> total_features(loc[w].arg)]
       IN /\ vers' = [vers EXCEPT ![v]["metadata.json"] = RegFile(metadata)]
          /\ loc' = [loc EXCEPT ![w].metadata = metadata, ![w].i = 1]
    /\ clock' = clock + 1
    /\ pc' = [pc EXCEPT ![w] = "unlink"]
    /\ UNCHANGED <<pl, absdir, latest, catalog, calls, rd, assigned, saved>>

(***************************************************************************)
(* _update_latest, called by save_artifacts.                               *)
(***************************************************************************)
\* for file_path in [...]: if file_path.exists(): file_path.unlink()
LatestUnlink(w) ==
    /\ pc[w] = "unlink"
    /\ LET f == FileOrder[loc[w].i]
       IN latest' = IF LatestExists(f)
                    THEN [latest EXCEPT ![f] = NoFile]
                    ELSE latest
    /\ IF loc[w].i < 4
       THEN /\ loc' = [loc EXCEPT ![w].i = @ + 1]
            /\ UNCHANGED pc
       ELSE /\ loc' = [loc EXCEPT ![w].i = 1]
            /\ pc' = [pc EXCEPT ![w] = "symlink"]
    /\ UNCHANGED <<pl, absdir, vers, catalog, clock, calls, rd, assigned, saved>>

\* latest_x.symlink_to(version_dir / x) creates the link
LatestSymlinkOk(w) ==
    /\ pc[w] = "symlink"
    /\ LET f == FileOrder[loc[w].i]
       IN /\ latest[f].kind = "none"
          /\ latest' = [latest EXCEPT
                           ![f] = SymLink(loc[w].version, f, absdir)]
    /\ IF loc[w].i < 4
       THEN /\ loc' = [loc EXCEPT ![w].i = @ + 1]
            /\ UNCHANGED pc
       ELSE /\ loc' = [loc EXCEPT ![w].i = 0]
            /\ pc' = [pc EXCEPT ![w] = "catalog_read"]
    /\ UNCHANGED <<pl, absdir, vers, catalog, clock, calls, rd, assigned, saved>>

\* latest_x.symlink_to(version_dir / x) raises OSError: the path is taken
\* (FileExistsError, also for a link that leads nowhere, which exists()
\* does not see and the loop above does not remove) or the file system
\* refuses the link (no support, no permission, no space); control passes
\* to the except clause.  The links made before the failure stay.
LatestSymlinkFails(w) ==
    /\ pc[w] = "symlink"
    /\ loc' = [loc EXCEPT ![w].failedAt = loc[w].i, ![w].i = 1]
    /\ pc' = [pc EXCEPT ![w] = "copy"]
    /\ UNCHANGED <<pl, absdir, vers, latest, catalog, clock, calls, rd, assigned,
                   saved>>

\* shutil.copy2(version_dir / x, latest_x).  copy2 follows a link at
\* latest_x: it raises SameFileError when the link leads to the source,
\* FileNotFoundError when it leads into a directory that does not exist, and
\* otherwise writes the file the link leads to.
LatestCopy(w) ==
    /\ pc[w] = "copy"
    /\ LET v == loc[w].version
           f == FileOrder[loc[w].i]
           src == vers[v][f]
           dst == latest[f]
           advance ==
               IF loc[w].i < 4
               THEN /\ loc' = [loc EXCEPT ![w].i = @ + 1]
                    /\ UNCHANGED pc
               ELSE /\ loc' = [loc EXCEPT ![w].i = 0]
                    /\ pc' = [pc EXCEPT ![w] = "catalog_read"]
       IN IF src.kind # "file"
          THEN /\ Raised(w, "FileNotFoundError")
               /\ UNCHANGED <<vers, latest>>
          ELSE IF dst.kind # "link"
          THEN /\ latest' = [latest EXCEPT ![f] = RegFile(src.data)]
               /\ advance
               /\ UNCHANGED vers
          ELSE IF ~dst.abs \/ dst.target \notin DOMAIN vers
          THEN /\ Raised(w, "FileNotFoundError")
               /\ UNCHANGED <<vers, latest>>
          ELSE IF dst.target = v /\ dst.file = f
          THEN /\ Raised(w, "SameFileError")
               /\ UNCHANGED <<vers, latest>>
          ELSE /\ vers' = [vers EXCEPT
                              ![dst.target][dst.file] = RegFile(src.data)]
               /\ advance
               /\ UNCHANGED latest
    /\ UNCHANGED <<pl, absdir, catalog, clock, calls, rd, assigned, saved>>

(***************************************************************************)
(* _update_global_metadata, called by save_artifacts.                      *)
(***************************************************************************)
\* global_metadata["versions"].sort(key=timestamp, reverse=True): a stable
\* sort, largest timestamp first
RECURSIVE SortByTimestampDesc(_)
SortByTimestampDesc(s) ==
    IF s = <<>> THEN <<>>
    ELSE LET i == CHOOSE j \in 1..Len(s) :
                      /\ \A k \in 1..Len(s) : s[k].timestamp <= s[j].timestamp
                      /\ \A k \in 1..(j - 1) : s[k].timestamp < s[j].timestamp
         IN <<s[i]>> \o SortByTimestampDesc(SubSeq(s, 1, i - 1)
                                            \o SubSeq(s, i + 1, Len(s)))

\* [v for v in versions if v["version"] != version]
RECURSIVE WithoutVersion(_, _)
WithoutVersion(s, version) ==
    IF s = <<>> THEN <<>>
    ELSE IF Head(s).version = version THEN WithoutVersion(Tail(s), version)
    ELSE <<Head(s)>> \o WithoutVersion(Tail(s), version)

\* UpdatedCatalog without the removal of the entry of the same version id
UpdatedCatalogKeepsDuplicate(global_metadata, new_metadata) ==
    LET versions == IF global_metadata = EmptyDict THEN <<>>
                    ELSE global_metadata.versions
        version_info == [version |-> new_metadata.version,
                         timestamp |-> new_metadata.timestamp,
                         metrics |-> new_metadata.metrics,
                         model_type |-> new_metadata.model_type]
    IN [latest_version |-> new_metadata.version,
        last_updated |-> new_metadata.timestamp,
        versions |-> SortByTimestampDesc(Append(versions, version_info))]

\* global_metadata after lines 133-156
UpdatedCatalog(global_metadata, new_metadata) ==
    LET versions == IF global_metadata = EmptyDict THEN <<>>
                    ELSE global_metadata.versions
        version_info == [version |-> new_metadata.version,
                         timestamp |-> new_metadata.timestamp,
                         metrics |-> new_metadata.metrics,
                         model_type |-> new_metadata.model_type]
    IN [latest_version |-> new_metadata.version,
        last_updated |-> new_metadata.timestamp,
        versions |-> SortByTimestampDesc(
                         Append(WithoutVersion(versions, new_metadata.version),
                                version_info))]

\* CatalogRead with the parse failure caught and the catalog taken as {}
CatalogReadSwallows(w) ==
    /\ pc[w] = "catalog_read"
    /\ loc' = [loc EXCEPT ![w].global_metadata =
                  IF catalog.kind = "file" /\ catalog.data # Garbage
                  THEN catalog.data ELSE EmptyDict]
    /\ pc' = [pc EXCEPT ![w] = "catalog_write"]
    /\ UNCHANGED <<pl, absdir, vers, latest, catalog, clock, calls, rd, assigned,
                   saved>>

\* global_metadata = {}; if exists: global_metadata = json.load(f); the
\* JSONDecodeError of json.load is caught nowhere
CatalogRead(w) ==
    /\ pc[w] = "catalog_read"
    /\ IF catalog = RegFile(Garbage)
       THEN Raised(w, "JSONDecodeError")
       ELSE /\ loc' = [loc EXCEPT ![w].global_metadata =
                         IF catalog.kind = "file" THEN catalog.data
                         ELSE EmptyDict]
            /\ pc' = [pc EXCEPT ![w] = "catalog_write"]
    /\ UNCHANGED <<pl, absdir, vers, latest, catalog, clock, calls, rd, assigned,
                   saved>>

\* json.dump(global_metadata, f); save_artifacts then returns version
CatalogWrite(w) ==
    /\ pc[w] = "catalog_write"
    /\ catalog' = RegFile(UpdatedCatalog(loc[w].global_metadata,
                                         loc[w].metadata))
    /\ pc' = [pc EXCEPT ![w] = "returned"]
    /\ loc' = [loc EXCEPT ![w].result = Ok(loc[w].version)]
    /\ saved' = LET v == loc[w].version
                    b == [token |-> loc[w].arg, metadata |-> loc[w].metadata,
                          times |-> IF v \in DOMAIN saved
                                    THEN saved[v].times + 1 ELSE 1]
                IN [n \in DOMAIN saved \cup {v} |->
                       IF n = v THEN b ELSE saved[n]]
    /\ UNCHANGED <<pl, absdir, vers, latest, clock, calls, rd, assigned>>

(***************************************************************************)
(* run_pipeline (src/src/pipelines/orchestrator.py) after train_models.    *)
(***************************************************************************)
PlQuiescent == pl.pc \in {"idle", "done", "failed"}

\* save_artifacts raised inside train_models: nothing catches it, the
\* exception leaves run_pipeline
PipelineSaveRaised(w) ==
    /\ pl.pc = "train"
    /\ pc[w] = "raised"
    /\ pl' = [pl EXCEPT !.pc = "failed", !.result = loc[w].result]
    /\ UNCHANGED <<absdir, vers, latest, catalog, clock, calls, pc, loc, rd,
                   assigned, saved>>

\* model, version = train_models(...); metrics = evaluate_model(...)
PipelineEvaluate(w) ==
    /\ pl.pc = "train"
    /\ pc[w] = "returned"
    /\ pl' = [pl EXCEPT !.pc = "patch_read",
                        !.version = loc[w].version,
                        !.metrics = evaluate_model(loc[w].arg)]
    /\ UNCHANGED <<absdir, vers, latest, catalog, clock, calls, pc, loc, rd,
                   assigned, saved>>

\* if version_dir.exists(): metadata = json.load(metadata_path); a missing
\* file raises inside the try block
PipelinePatchRead ==
    /\ pl.pc = "patch_read"
    /\ IF pl.version \notin DOMAIN vers
       THEN pl' = [pl EXCEPT !.pc = "log"]
       ELSE IF vers[pl.version]["metadata.json"].kind # "file"
       THEN pl' = [pl EXCEPT !.pc = "log", !.patch = "failed"]
       ELSE pl' = [pl EXCEPT !.pc = "patch_write",
                             !.metadata = vers[pl.version]["metadata.json"].data]
    /\ UNCHANGED <<absdir, vers, latest, catalog, clock, calls, pc, loc, rd,
                   assigned, saved>>

\* PipelinePatchWrite stamping the document with the time of the patch
PipelinePatchWriteRestamps ==
    /\ pl.pc = "patch_write"
    /\ vers' = [vers EXCEPT ![pl.version]["metadata.json"] =
                    RegFile([pl.metadata EXCEPT !.metrics = pl.metrics,
                                                !.timestamp = clock])]
    /\ pl' = [pl EXCEPT !.pc = "log", !.patch = "ok"]
    /\ UNCHANGED <<absdir, latest, catalog, clock, calls, pc, loc, rd,
                   assigned, saved>>

\* metadata["metrics"] = metrics; json.dump(metadata, metadata_path)
PipelinePatchWrite ==
    /\ pl.pc = "patch_write"
    /\ vers' = [vers EXCEPT ![pl.version]["metadata.json"] =
                    RegFile([pl.metadata EXCEPT !.metrics = pl.metrics])]
    /\ pl' = [pl EXCEPT !.pc = "log", !.patch = "ok"]
    /\ UNCHANGED <<absdir, latest, catalog, clock, calls, pc, loc, rd,
                   assigned, saved>>

\* PipelinePatchFails without the except clause: the exception leaves
\* run_pipeline
PipelinePatchFailsPropagates ==
    /\ pl.pc = "patch_write"
    /\ pl' = [pl EXCEPT !.pc = "failed", !.patch = "failed",
                        !.result = Raise("OSError")]
    /\ UNCHANGED <<absdir, vers, latest, catalog, clock, calls, pc, loc, rd,
                   assigned, saved>>

\* open(metadata_path, "w") raises (the file cannot be opened for writing):
\* except Exception logs a warning and the run goes on
PipelinePatchFails ==
    /\ pl.pc = "patch_write"
    /\ pl' = [pl EXCEPT !.pc = "log", !.patch = "failed"]
    /\ UNCHANGED <<absdir, vers, latest, catalog, clock, calls, pc, loc, rd,
                   assigned, saved>>

\* log_experiment(model, metrics, params); return model, version, metrics
PipelineLog(w) ==
    /\ pl.pc = "log"
    /\ pl' = [pl EXCEPT !.pc = "done", !.logged = TRUE,
                        !.result = Ok([model |-> loc[w].arg,
                                       version |-> pl.version,
                                       metrics |-> pl.metrics])]
    /\ UNCHANGED <<absdir, vers, latest, catalog, clock, calls, pc, loc, rd,
                   assigned, saved>>

PipelineStep(w) ==
    \/ PipelineSaveRaised(w)
    \/ PipelineEvaluate(w)
    \/ PipelinePatchRead
    \/ PipelinePatchWrite
    \/ PipelinePatchFails
    \/ PipelineLog(w)

(***************************************************************************)
(* get_version_info and list_versions, as functions of the store.          *)
(***************************************************************************)
\* get_version_info(version)
get_version_info(version) ==
    LET file == IF version = None THEN LatestFile("metadata.json")
                ELSE IF version \in DOMAIN vers
                THEN vers[version]["metadata.json"]
                ELSE NoFile
    IN IF file.kind = "file" THEN Ok(file.data)
       ELSE Raise("FileNotFoundError")

\* the metadata documents of the directories of names, in sorted() order
RECURSIVE MetadataOf(_)
MetadataOf(names) ==
    IF names = {} THEN <<>>
    ELSE LET last == SortedLast(names)
             metadata_path == vers[last]["metadata.json"]
         IN MetadataOf(names \ {last})
                \o (IF metadata_path.kind = "file"
                    THEN <<metadata_path.data>> ELSE <<>>)

\* list_versions answering from the versions list of the global catalog
list_versions_of_catalog ==
    IF catalog.kind = "file" /\ catalog.data # Garbage
    THEN catalog.data.versions ELSE <<>>

\* list_versions()
list_versions == MetadataOf(DOMAIN vers)

(***************************************************************************)
(* load_latest_artifacts, one step per file operation.  The reader is      *)
(* PricePredictor.__init__(version), which calls load_latest_artifacts in  *)
(* both branches of "if version", or a direct caller (req = None).         *)
(***************************************************************************)
RdDone(r) == rd' = [rd EXCEPT !.pc = "done", !.i = 0, !.result = r]

\* the bundle load_latest_artifacts returns
Bundle(got) ==
    [model |-> got["price_model.pkl"],
     preprocessor |-> got["preprocessor.pkl"],
     feature_info |-> got["feature_names.pkl"],
     metadata |-> got["metadata.json"]]

\* PricePredictor(version) / load_latest_artifacts() is called;
\* latest_dir exists since __init__
LoadCall(version) ==
    /\ rd.pc \in {"idle", "done"}
    /\ rd' = [InitRd EXCEPT !.pc = "exists", !.req = version, !.i = 1]
    /\ UNCHANGED <<pl, absdir, vers, latest, catalog, clock, calls, pc, loc,
                   assigned, saved>>

\* all(p.exists() for p in [model_path, preprocessor_path, feature_info_path])
LoadExists ==
    /\ rd.pc = "exists"
    /\ IF ~LatestExists(FileOrder[rd.i])
       THEN RdDone(Raise("FileNotFoundError"))
       ELSE IF rd.i < 3
       THEN rd' = [rd EXCEPT !.i = @ + 1]
       ELSE rd' = [rd EXCEPT !.pc = "load", !.i = 1]
    /\ UNCHANGED <<pl, absdir, vers, latest, catalog, clock, calls, pc, loc,
                   assigned, saved>>

\* joblib.load(model_path | preprocessor_path | feature_info_path)
LoadPickle ==
    /\ rd.pc = "load"
    /\ LET f == FileOrder[rd.i]
       IN IF ~LatestExists(f)
          THEN RdDone(Raise("FileNotFoundError"))
          ELSE rd' = [rd EXCEPT !.got[f] = LatestFile(f).data,
                                !.i = IF rd.i < 3 THEN rd.i + 1 ELSE 0,
                                !.pc = IF rd.i < 3 THEN "load"
                                       ELSE "metadata_exists"]
    /\ UNCHANGED <<pl, absdir, vers, latest, catalog, clock, calls, pc, loc,
                   assigned, saved>>

\* metadata = {}; if metadata_path.exists(): ...
LoadMetadataExists ==
    /\ rd.pc = "metadata_exists"
    /\ IF LatestExists("metadata.json")
       THEN rd' = [rd EXCEPT !.pc = "metadata_load"]
       ELSE RdDone(Ok(Bundle(rd.got)))
    /\ UNCHANGED <<pl, absdir, vers, latest, catalog, clock, calls, pc, loc,
                   assigned, saved>>

\* with open(metadata_path) as f: metadata = json.load(f); return ...
LoadMetadata ==
    /\ rd.pc = "metadata_load"
    /\ IF ~LatestExists("metadata.json")
       THEN RdDone(Raise("FileNotFoundError"))
       ELSE RdDone(Ok(Bundle([rd.got EXCEPT !["metadata.json"] =
                                  LatestFile("metadata.json").data])))
    /\ UNCHANGED <<pl, absdir, vers, latest, catalog, clock, calls, pc, loc,
                   assigned, saved>>

\* the caller drops the result
LoadForget ==
    /\ rd.pc = "done"
    /\ rd' = InitRd
    /\ UNCHANGED <<pl, absdir, vers, latest, catalog, clock, calls, pc, loc,
                   assigned, saved>>

RdQuiescent == rd.pc \in {"idle", "done"}

(***************************************************************************)
(* Specifications.                                                         *)
(***************************************************************************)
SaveStep(w) ==
    \/ SaveAlloc(w)
    \/ SaveMkdir(w)
    \/ SaveDump(w)
    \/ SaveMetadata(w)
    \/ LatestUnlink(w)
    \/ LatestSymlinkOk(w)
    \/ LatestSymlinkFails(w)
    \/ LatestCopy(w)
    \/ CatalogRead(w)
    \/ CatalogWrite(w)

LoadStep ==
    \/ LoadExists
    \/ LoadPickle
    \/ LoadMetadataExists
    \/ LoadMetadata

\* One caller: every call runs to its return or its exception before the
\* next call is made (single process, synchronous).
Next ==
    \/ \E version \in {None} \cup ExplicitNames :
           /\ rd.pc = "idle" /\ PlQuiescent /\ calls < MaxCalls
           /\ SaveCall("w1", version)
    \/ rd.pc = "idle" /\ calls < MaxCalls /\ PipelineTrain("w1")
    \/ RdQuiescent /\ SaveStep("w1")
    \/ PipelineStep("w1")
    \/ \E version \in {None} \cup DOMAIN vers :
           Quiescent("w1") /\ PlQuiescent /\ LoadCall(version)
    \/ LoadStep
    \/ LoadForget

Spec == Init /\ [][Next]_vars

\* A writer and a reader in separate processes on the same store: their
\* file operations interleave.
NextConc ==
    \/ \E version \in {None} \cup ExplicitNames :
           calls < MaxConcCalls /\ SaveCall("w1", version)
    \/ SaveStep("w1")
    \/ \E version \in {None} \cup DOMAIN vers : LoadCall(version)
    \/ LoadStep
    \/ LoadForget

SpecConc == Init /\ [][NextConc]_vars

(***************************************************************************)
(* The catalog file is an ordinary file under artifacts/: between two      *)
(* calls something else may truncate it, delete it or put another store's  *)
(* catalog in its place.                                                   *)
(***************************************************************************)
\* a version id no call of this store saved
ForeignName == <<"v", "7", ".", "0", ".", "0">>

\* the catalog of another store, holding one entry
ForeignCatalog ==
    [latest_version |-> ForeignName,
     last_updated |-> 0,
     versions |-> <<[version |-> ForeignName, timestamp |-> 0,
                     metrics |-> EmptyMetrics,
                     model_type |-> "RandomForestRegressor"]>>]

CatalogDamaged(c) ==
    /\ Quiescent("w1")
    /\ c # catalog
    /\ catalog' = c
    /\ UNCHANGED <<pl, absdir, vers, latest, clock, calls, pc, loc, rd,
                   assigned, saved>>

\* save_artifacts calls, one at a time, on a store whose catalog file is
\* damaged between the calls
NextFaults ==
    \/ \E version \in {None} \cup ExplicitNames :
           calls < MaxFaultCalls /\ SaveCall("w1", version)
    \/ SaveStep("w1")
    \/ \E c \in {NoFile, RegFile(Garbage), RegFile(ForeignCatalog)} :
           CatalogDamaged(c)

SpecFaults == Init /\ [][NextFaults]_vars

\* Two processes call save_artifacts without a version on the same store
\* and nothing serialises them: their file operations interleave.
NextRace ==
    \/ \E w \in Writers : calls < MaxRaceCalls /\ SaveCall(w, None)
    \/ \E w \in Writers : SaveStep(w)

SpecRace == Init /\ [][NextRace]_vars

(***************************************************************************)
(* Version ids as the specification orders them.                           *)
(***************************************************************************)
\* the name has the form v<major>.<minor>.<patch>
Conforming(name) ==
    /\ name # <<>>
    /\ Head(name) = "v"
    /\ LET parts == SplitDot(Tail(name))
       IN Len(parts) = 3 /\ \A i \in 1..3 : IsInt(parts[i])

\* <<major, minor, patch>> of a conforming name
Triple(name) ==
    LET parts == SplitDot(Tail(name))
    IN <<ToInt(parts[1]), ToInt(parts[2]), ToInt(parts[3])>>

\* numeric ordering of triples
TripleLeq(a, b) ==
    \/ a[1] < b[1]
    \/ a[1] = b[1] /\ a[2] < b[2]
    \/ a[1] = b[1] /\ a[2] = b[2] /\ a[3] <= b[3]

\* the greatest of a non-empty set of conforming names, numerically
NumericMax(names) ==
    CHOOSE m \in names : \A n \in names : TripleLeq(Triple(n), Triple(m))

ConformingNames == {n \in DOMAIN vers : Conforming(n)}

(***************************************************************************)
(* Claims.                                                                 *)
(***************************************************************************)
\* C1: in every sequence of save_artifacts calls made without an explicit
\* version, from whatever store the earlier calls left, each call is
\* assigned an id whose patch component is strictly greater than that of
\* the previous call, and no id is assigned twice.
C1_PatchStrictlyIncreases ==
    \A i \in 1..Len(assigned) : \A j \in 1..Len(assigned) :
        i < j => /\ Triple(assigned[i])[3] < Triple(assigned[j])[3]
                 /\ assigned[i] # assigned[j]

\* C2: when every directory under versions/ is named v<major>.<minor>.<patch>
\* get_next_version returns the numerically greatest triple with its patch
\* incremented by one, and v1.0.0 when there is no directory.
C2_NextOfNumericMax ==
    DOMAIN vers = ConformingNames =>
        get_next_version(DOMAIN vers) =
            IF DOMAIN vers = {} THEN Ok(FormatVersion(1, 0, 0))
            ELSE LET m == Triple(NumericMax(DOMAIN vers))
                 IN Ok(FormatVersion(m[1], m[2], m[3] + 1))

\* C10: a directory under versions/ whose name is not of the form
\* v<major>.<minor>.<patch> never makes get_next_version raise and never
\* changes its result, which is the result for the conforming names alone.
C10_NonConformingIgnored ==
    get_next_version(DOMAIN vers) = get_next_version(ConformingNames)

\* the bundle a load returns when it returns what a call saved
ExpectedBundle(b) ==
    [model |-> Pickle("price_model.pkl", b.token),
     preprocessor |-> Pickle("preprocessor.pkl", b.token),
     feature_info |-> Pickle("feature_names.pkl", b.token),
     metadata |-> b.metadata]

\* C3: a load_latest_artifacts call made after save_artifacts returned V
\* returns exactly the model, preprocessor, feature_info and metadata that
\* were saved as V.
C3_LoadLatestAfterSave ==
    (pc["w1"] = "returned" /\ rd.pc = "done") =>
        rd.result = Ok(ExpectedBundle(saved[loc["w1"].version]))

\* C4: load_latest_artifacts raises FileNotFoundError whenever one of the
\* four files of latest/ is missing; it never returns a bundle with a
\* missing or defaulted member.
C4_MissingFileRaises ==
    (rd.pc = "done" /\ \E f \in Files : ~LatestExists(f)) =>
        rd.result = Raise("FileNotFoundError")

\* C5: after save_artifacts returned, the bundle PricePredictor(version=V)
\* loads for a saved version V is the bundle that was saved as V, also
\* when other versions were saved after V.
C5_LoadVersionReturnsVersion ==
    (/\ pc["w1"] = "returned"
     /\ rd.pc = "done"
     /\ rd.req \in DOMAIN saved
     /\ rd.result.ok) =>
        rd.result.val = ExpectedBundle(saved[rd.req])

\* the entries of the catalog's versions list
CatalogVersions ==
    IF catalog.kind = "file" THEN catalog.data.versions ELSE <<>>

EntriesOf(v) == {i \in 1..Len(CatalogVersions) : CatalogVersions[i].version = v}

\* C6: after any sequence of save_artifacts calls, re-saves of a version id
\* included, the catalog's versions list holds at most one entry per
\* version id and exactly one for each id a call saved and returned.
C6_OneEntryPerVersion ==
    /\ \A i \in 1..Len(CatalogVersions) :
           Cardinality(EntriesOf(CatalogVersions[i].version)) = 1
    /\ \A v \in DOMAIN saved : Cardinality(EntriesOf(v)) = 1

\* a version id was saved twice, another id as well, and the catalog lists
\* both
C6_Witness ==
    /\ pc["w1"] = "returned"
    /\ saved[loc["w1"].version].times = 2
    /\ Len(CatalogVersions) = 2

\* the path of latest/ is a link to, or holds a copy of, file f of version v
References(f, v) ==
    \/ latest[f] = SymLink(v, f, absdir)
    \/ latest[f].kind = "file" /\ latest[f] = vers[v][f]

\* C7: after completed saves, made with or without explicit version ids in
\* any order, each of the four files of latest/ references the file of the
\* version directory with the numerically greatest version id.
C7_LatestIsGreatestVersion ==
    (/\ pc["w1"] = "returned"
     /\ DOMAIN vers = ConformingNames
     /\ DOMAIN saved = DOMAIN vers) =>
        \A f \in Files : References(f, NumericMax(DOMAIN vers))

\* C8: a load_latest_artifacts call whose file operations interleave with
\* those of save_artifacts raises or returns a bundle whose four members
\* were all saved by one and the same call; no member is missing.
C8_ReaderSeesOneBundle ==
    (rd.pc = "done" /\ rd.result.ok) =>
        \E n \in 1..calls :
            /\ rd.result.val.model = Pickle("price_model.pkl", n)
            /\ rd.result.val.preprocessor = Pickle("preprocessor.pkl", n)
            /\ rd.result.val.feature_info = Pickle("feature_names.pkl", n)
            /\ rd.result.val.metadata # EmptyDict
            /\ rd.result.val.metadata.params = n

\* _update_latest has ended, by return or by exception, for writer w
PromotionEnded(w) ==
    \/ pc[w] \in {"catalog_read", "catalog_write", "returned"}
    \/ pc[w] = "raised" /\ loc[w].failedAt > 0

\* C9: when the creation of the link fails for any one of the four files,
\* _update_latest completes with all four files of latest/ physical copies
\* of the files of version V; it never ends with a mixed, stale or
\* incomplete latest/.
C9_PromotionAllOrNothing ==
    (loc["w1"].failedAt > 0 /\ PromotionEnded("w1")) =>
        /\ pc["w1"] # "raised"
        /\ \A f \in Files :
               /\ latest[f].kind = "file"
               /\ latest[f] = vers[loc["w1"].version][f]


\* C11: when the existing catalog file cannot be parsed, the step of
\* save_artifacts that reads it raises, no step of the call replaces the
\* file and the call does not return.
C11_UnparseableCatalogRaises ==
    [][(catalog = RegFile(Garbage) /\ pc' # pc)
          => /\ catalog' = catalog
             /\ pc'["w1"] # "returned"
             /\ pc["w1"] = "catalog_read"
                   => /\ pc'["w1"] = "raised"
                      /\ loc'["w1"].result = Raise("JSONDecodeError")]_vars

\* a call raised on an unparseable catalog that had held entries of
\* earlier calls
C11_Witness ==
    /\ pc["w1"] = "raised"
    /\ loc["w1"].result = Raise("JSONDecodeError")
    /\ catalog = RegFile(Garbage)
    /\ saved # <<>>


C13_PatchChangesOnlyMetrics ==
    [][(pl.pc = "patch_write" /\ pl'.patch = "ok")
          => /\ get_version_info(pl.version).ok
             /\ get_version_info(pl.version)' =
                   Ok([get_version_info(pl.version).val
                          EXCEPT !.metrics = evaluate_model(loc["w1"].arg)])
             /\ \A V \in DOMAIN vers \ {pl.version} :
                   V \in DOMAIN vers' /\ vers'[V] = vers[V]]_vars

\* a run patched V while the store holds another version with a metadata
\* document
C13_Witness ==
    /\ pl.patch = "ok"
    /\ get_version_info(pl.version).ok
    /\ get_version_info(pl.version).val.metrics = pl.metrics
    /\ pl.metrics # EmptyMetrics
    /\ \E V \in DOMAIN vers \ {pl.version} : get_version_info(V).ok


\* the version directories that hold a metadata document
DirsWithMetadata ==
    {V \in DOMAIN vers : vers[V]["metadata.json"].kind = "file"}

\* C14: list_versions returns the metadata document of each version
\* directory that holds one exactly once and nothing else, so its length is
\* the number of such directories, whatever the catalog file holds.
C14_ListVersionsFromDirectories ==
    /\ Len(list_versions) = Cardinality(DirsWithMetadata)
    /\ \A V \in DirsWithMetadata :
          Cardinality({i \in 1..Len(list_versions) :
                          list_versions[i] = vers[V]["metadata.json"].data}) = 1

\* one directory with a metadata document, one without, and a catalog that
\* lists an id of neither
C14_Witness ==
    /\ DirsWithMetadata # {}
    /\ DOMAIN vers \ DirsWithMetadata # {}
    /\ catalog = RegFile(ForeignCatalog)
    /\ Len(list_versions) = Cardinality(DirsWithMetadata)


\* both calls returned the same version id
BothReturned(V) ==
    \A w \in Writers : pc[w] = "returned" /\ loc[w].result = Ok(V)

\* versions/V holds the bundle of the call of w, whole
BundleRemains(w, V) ==
    /\ \A f \in Files \ {"metadata.json"} :
          vers[V][f] = RegFile(Pickle(f, loc[w].arg))
    /\ vers[V]["metadata.json"] = RegFile(loc[w].metadata)

\* C15: a call made without a version that computes its id while another
\* call has computed one and not yet created its directory computes the same
\* id; and when both calls have returned that id, versions/V holds one file
\* per member, each written by one of the two calls, the catalog lists the
\* id once, and at most one of the two bundles is there whole.
C15_RacingSavesShareId ==
    [][/\ \A w \in Writers : \A o \in Writers \ {w} :
             (/\ pc[w] = "alloc" /\ pc'[w] # "alloc"
              /\ pc[o] = "mkdir" /\ loc[o].version \notin DOMAIN vers)
                => pc'[w] = "mkdir" /\ loc'[w].version = loc[o].version
       /\ \A V \in DOMAIN vers' :
             BothReturned(V)'
                => /\ \A f \in Files \ {"metadata.json"} :
                         \E w \in Writers :
                            vers'[V][f] = RegFile(Pickle(f, loc'[w].arg))
                   /\ \E w \in Writers :
                         vers'[V]["metadata.json"] = RegFile(loc'[w].metadata)
                   /\ Cardinality(EntriesOf(V)') = 1
                   /\ \E w \in Writers : ~BundleRemains(w, V)']_vars

\* both calls returned the same id and versions/V holds the bundle of one
\* of them whole: the other call's bundle is gone
C15_Witness ==
    \E V \in DOMAIN vers :
       /\ BothReturned(V)
       /\ loc["w1"].arg # loc["w2"].arg
       /\ \E w \in Writers : BundleRemains(w, V)
       /\ \E w \in Writers : ~BundleRemains(w, V)


\* C16: when _update_latest(V) has returned, each of the four paths of
\* latest/ leads to an existing file that is the corresponding file of
\* versions/V, with an absolute and with the default relative directory.
C16_LatestResolvesToVersion ==
    pc["w1"] = "catalog_read"
       => \A f \in Files :
             /\ LatestExists(f)
             /\ LatestFile(f) = vers[loc["w1"].version][f]

\* C17: in every state, the steps in the middle of a save and of a re-save
\* included, a version directory that holds a metadata document holds the
\* model, preprocessor and feature files of the call that wrote the
\* document.
C17_MetadataImpliesItsFiles ==
    \A V \in DOMAIN vers :
       vers[V]["metadata.json"].kind = "file"
          => \A f \in Files \ {"metadata.json"} :
                vers[V][f] =
                   RegFile(Pickle(f, vers[V]["metadata.json"].data.params))

\* C18: a failure of the metadata patch leaves run_pipeline in its normal
\* course, which ends with the experiment logged and the model, version and
\* evaluated metrics returned; an exception of save_artifacts ends the run
\* with that exception, with no evaluation, patch or logging.
C18_PatchFailureContinues ==
    [][/\ (pl.pc = "patch_write" /\ pl'.patch = "failed")
             => pl'.pc = "log"
       /\ (pl.pc = "log" /\ pl' # pl)
             => /\ pl'.pc = "done"
                /\ pl'.logged
                /\ pl'.result =
                      Ok([model |-> loc["w1"].arg,
                          version |-> loc["w1"].version,
                          metrics |-> evaluate_model(loc["w1"].arg)])
       /\ (pl.pc = "train" /\ pc["w1"] = "raised" /\ pl' # pl)
             => /\ pl'.pc = "failed"
                /\ pl'.result = loc["w1"].result
                /\ ~pl'.result.ok
                /\ ~pl'.logged
                /\ pl'.patch = "none"
                /\ pl'.metrics = EmptyMetrics
       /\ (pl.pc = "failed" /\ pl' # pl) => pl'.pc = "train"]_vars

\* a run whose patch failed returned the model, the version and the
\* evaluated metrics after logging the experiment
C18_Witness ==
    /\ pl.pc = "done"
    /\ pl.patch = "failed"
    /\ pl.logged
    /\ pl.result.ok
    /\ pl.result.val.metrics # EmptyMetrics

\* the version ids the catalog lists
CatalogIds == {CatalogVersions[i].version : i \in 1..Len(CatalogVersions)}

\* the version ids of the documents list_versions returns
ListedIds == {list_versions[i].version : i \in 1..Len(list_versions)}

\* C19: after every save_artifacts call, returned or raised, the ids the
\* catalog lists are the ids of the documents list_versions returns.
C19_CatalogMatchesListing ==
    pc["w1"] \in {"returned", "raised"} => CatalogIds = ListedIds

\* C20: after a run of the pipeline saved V and patched its metrics, the
\* metrics of versions/V/metadata.json, of the metadata document of latest/
\* and of the catalog entry of V are the same.
C20_MetricsAgree ==
    (pl.pc = "done" /\ pl.patch = "ok")
       => LET metrics == vers[pl.version]["metadata.json"].data.metrics
          IN /\ EntriesOf(pl.version) # {}
             /\ \A i \in EntriesOf(pl.version) :
                   CatalogVersions[i].metrics = metrics
             /\ LatestExists("metadata.json")
             /\ LatestFile("metadata.json").data.metrics = metrics


\* C21: when a save_artifacts call has returned V, the catalog's
\* latest_version is V and the metadata document that latest/ leads to
\* records the version V.
C21_LatestVersionAgrees ==
    pc["w1"] = "returned"
       => /\ catalog.kind = "file"
          /\ catalog.data.latest_version = loc["w1"].result.val
          /\ LatestExists("metadata.json")
          /\ LatestFile("metadata.json").data.version = loc["w1"].result.val

====
